---- MODULE Spec2Model ----
(***************************************************************************)
(* Model of src/src/base64.ts: the Base64 alphabet tables, the encoder     *)
(* fromUint8Array, the validity check, getBase64Info, the decoder          *)
(* toUint8Array and the URL-safe helpers.                                  *)
(*                                                                         *)
(* A JavaScript string is a sequence of one-character strings.  A value    *)
(* handed to a function taking `any` is a record [typeof, str].  A call's   *)
(* outcome is a record whose field `kind` is "return" or "throw".          *)
(***************************************************************************)
EXTENDS Integers, Sequences, FiniteSets, TLC

VARIABLES
  given,    \* what the caller starts from: "bytes", "base64" or "text"
  bytes,    \* the caller's byte buffer
  text,     \* the caller's text, as code points
  base64,   \* the base64 value in hand: supplied, or returned by an encoder
  url,      \* the URL-safe string derived from base64
  urlSafe,  \* the urlSafe flag of the last wrapper call
  call,     \* the function called last
  ret,      \* its outcome
  trace     \* the final loop state of the last toUint8Array call

vars == <<given, bytes, text, base64, url, urlSafe, call, ret, trace>>

(* ------------------------------ bounds -------------------------------- *)

\* longest byte buffer handed to the encoder
MaxLen == 6

\* longest string handed directly to the validity check and the decoder
MaxStrLen == 4

\* byte values the buffers are built from: 0, 'M', and two bytes whose
\* encodings use the last two alphabet slots ('+' and '/')
ByteVals == {0, 77, 251, 255}

\* characters the directly supplied strings are built from
InputChars == {"T", "Q", "+", "-", "_", "=", " ", "!"}

\* longest text handed to encodeBase64
MaxTextLen == 2

\* code points the texts are built from: 'h', U+00FE and U+00FF (whose last
\* UTF-8 byte puts '+' or '/' into the encoding), U+20AC, U+1F600 and a lone
\* surrogate
TextChars == {104, 254, 255, 8364, 128512, 55357}

(* --------------------------- JS primitives ---------------------------- *)

RECURSIVE BitAnd(_, _)
\* x & y on non-negative operands
BitAnd(x, y) ==
  IF x = 0 \/ y = 0 THEN 0
  ELSE (IF x % 2 = 1 /\ y % 2 = 1 THEN 1 ELSE 0) + 2 * BitAnd(x \div 2, y \div 2)

RECURSIVE BitOr(_, _)
\* x | y on non-negative operands
BitOr(x, y) ==
  IF x = 0 THEN y
  ELSE IF y = 0 THEN x
  ELSE (IF x % 2 = 1 \/ y % 2 = 1 THEN 1 ELSE 0) + 2 * BitOr(x \div 2, y \div 2)

\* x << n; every operand here is below 2^8 and every shift at most 18, so
\* the 32-bit result never wraps
Shl(x, n) == x * 2^n

\* x >> n on a non-negative operand
Shr(x, n) == x \div 2^n

\* s.replace(/c/g, d) for single characters c, d
ReplaceAll(s, c, d) == [k \in 1..Len(s) |-> IF s[k] = c THEN d ELSE s[k]]

\* c.repeat(n)
Repeat(c, n) == [k \in 1..n |-> c]

\* s.indexOf(c): 0-based, -1 when absent
IndexOf(s, c) ==
  IF \E k \in 1..Len(s) : s[k] = c
  THEN (CHOOSE k \in 1..Len(s) : s[k] = c /\ \A j \in 1..(k - 1) : s[j] # c) - 1
  ELSE -1

\* s.slice(from, to) for 0 <= from, 0 <= to
Slice(s, from, to) ==
  LET hi == IF to > Len(s) THEN Len(s) ELSE to
  IN  IF from >= hi THEN <<>> ELSE SubSeq(s, from + 1, hi)

\* s[i]: the character at 0-based index i, "undefined" outside the string
CharAt(s, i) == IF i + 1 \in DOMAIN s THEN s[i + 1] ELSE "undefined"

(* --------------------------- alphabet table --------------------------- *)

code ==
  << "A", "B", "C", "D", "E", "F", "G", "H", "I", "J", "K", "L", "M",
     "N", "O", "P", "Q", "R", "S", "T", "U", "V", "W", "X", "Y", "Z",
     "a", "b", "c", "d", "e", "f", "g", "h", "i", "j", "k", "l", "m",
     "n", "o", "p", "q", "r", "s", "t", "u", "v", "w", "x", "y", "z",
     "0", "1", "2", "3", "4", "5", "6", "7", "8", "9", "+", "/" >>

\* lookup[i]; an index outside the array reads undefined, which string
\* concatenation renders as the text "undefined"
lookup(i) == IF i + 1 \in DOMAIN code THEN code[i + 1] ELSE "undefined"

\* the keys of revLookup after the initialisation loop
revKeys == {"-", "_"} \cup {code[k] : k \in DOMAIN code}

\* revLookup as an object: the two URL-safe aliases plus one entry per
\* alphabet character
revLookup ==
  [c \in revKeys |->
     IF c \in {code[k] : k \in DOMAIN code}
     THEN (CHOOSE k \in DOMAIN code : code[k] = c) - 1
     ELSE IF c = "-" THEN 62 ELSE 63]

\* revLookup[key] as an operand of <<, >> or |: a missing key reads
\* undefined, which the bit operators convert to 0
revLookupInt(key) == IF key \in revKeys THEN revLookup[key] ELSE 0

(* ------------------------------ encoder ------------------------------- *)

\* the four characters pushed for the triplet starting at 0-based index i
EncodeTriplet(uint8Array, i) ==
  LET tmp == BitOr(BitOr(Shl(uint8Array[i + 1], 16), Shl(uint8Array[i + 2], 8)),
                   uint8Array[i + 3])
  IN  << lookup(BitAnd(Shr(tmp, 18), 63)),
         lookup(BitAnd(Shr(tmp, 12), 63)),
         lookup(BitAnd(Shr(tmp, 6), 63)),
         lookup(BitAnd(tmp, 63)) >>

RECURSIVE EncodeLoop(_, _, _)
\* the for loop of fromUint8Array from index i on: i < forLen; i += 3
EncodeLoop(uint8Array, i, forLen) ==
  IF i < forLen
  THEN EncodeTriplet(uint8Array, i) \o EncodeLoop(uint8Array, i + 3, forLen)
  ELSE <<>>

\* EncodeExtra with the mask of (tmp << 4) left out
EncodeExtra_NoMask(uint8Array) ==
  LET len == Len(uint8Array)
      extraBytes == len % 3
  IN  IF extraBytes = 1
      THEN LET tmp == uint8Array[len]
           IN  << lookup(Shr(tmp, 2)), lookup(Shl(tmp, 4)), "=", "=" >>
      ELSE IF extraBytes = 2
      THEN LET tmp == Shl(uint8Array[len - 1], 8) + uint8Array[len]
           IN  << lookup(Shr(tmp, 10)),
                  lookup(BitAnd(Shr(tmp, 4), 63)),
                  lookup(BitAnd(Shl(tmp, 2), 63)),
                  "=" >>
      ELSE <<>>

\* EncodeExtra pushing a single '=' after one leftover byte
EncodeExtra_OnePad(uint8Array) ==
  LET len == Len(uint8Array)
      extraBytes == len % 3
  IN  IF extraBytes = 1
      THEN LET tmp == uint8Array[len]
           IN  << lookup(Shr(tmp, 2)), lookup(BitAnd(Shl(tmp, 4), 63)), "=" >>
      ELSE IF extraBytes = 2
      THEN LET tmp == Shl(uint8Array[len - 1], 8) + uint8Array[len]
           IN  << lookup(Shr(tmp, 10)),
                  lookup(BitAnd(Shr(tmp, 4), 63)),
                  lookup(BitAnd(Shl(tmp, 2), 63)),
                  "=" >>
      ELSE <<>>

\* the part pushed for the leftover bytes
EncodeExtra(uint8Array) ==
  LET len == Len(uint8Array)
      extraBytes == len % 3
  IN  IF extraBytes = 1
      THEN LET tmp == uint8Array[len]
           IN  << lookup(Shr(tmp, 2)), lookup(BitAnd(Shl(tmp, 4), 63)), "=", "=" >>
      ELSE IF extraBytes = 2
      THEN LET tmp == Shl(uint8Array[len - 1], 8) + uint8Array[len]
           IN  << lookup(Shr(tmp, 10)),
                  lookup(BitAnd(Shr(tmp, 4), 63)),
                  lookup(BitAnd(Shl(tmp, 2), 63)),
                  "=" >>
      ELSE <<>>

fromUint8Array(uint8Array) ==
  LET len == Len(uint8Array)
      extraBytes == len % 3
      forLen == len - extraBytes
  IN  EncodeLoop(uint8Array, 0, forLen) \o EncodeExtra(uint8Array)

(* ------------------------- URL-safe helpers --------------------------- *)

RECURSIVE StripTrailing(_, _)
\* s.replace(/c+$/g, ""): drop the whole trailing run of c
StripTrailing(s, c) ==
  IF Len(s) > 0 /\ s[Len(s)] = c THEN StripTrailing(SubSeq(s, 1, Len(s) - 1), c) ELSE s

getPaddingLength(s) == (4 - (Len(s) % 4)) % 4

base64urlEncode(s) ==
  ReplaceAll(ReplaceAll(StripTrailing(s, "="), "+", "-"), "/", "_")

\* base64urlDecode that substitutes the characters but appends no padding
base64urlDecode_NoPadding(s) ==
  ReplaceAll(ReplaceAll(s, "-", "+"), "_", "/")

base64urlDecode(s) ==
  LET padding == Repeat("=", getPaddingLength(s))
      base64String == ReplaceAll(ReplaceAll(s \o padding, "-", "+"), "_", "/")
  IN  base64String

\* (base64 + padding).length is a multiple of 4, so * 3 / 4 is exact
getByteLength(s) ==
  LET paddingLength == getPaddingLength(s)
      padding == Repeat("=", paddingLength)
  IN  ((Len(s \o padding) * 3) \div 4) - paddingLength

(* ---------------------------- validity -------------------------------- *)

\* the characters \s matches, among those a model string can hold
WhiteSpace == {" ", "\t", "\n", "\f", "\r"}

\* 0-9a-zA-Z
AlphaNum == {code[k] : k \in 1..62}

\* the negated character classes of the two tests
StdClass == WhiteSpace \cup AlphaNum \cup {"+", "/"}
UrlClass == WhiteSpace \cup AlphaNum \cup {"-", "_"}

\* /[^class]/.test(s)
TestOutside(class, s) == \E k \in 1..Len(s) : s[k] \notin class

\* s.replace(/\s+/g, '')
RemoveWhiteSpace(s) == SelectSeq(s, LAMBDA c : c \notin WhiteSpace)

\* s.replace(/={0,2}$/, ''): the leftmost match is the longest run of at
\* most two '=' that ends the string
StripPadding2(s) ==
  LET n == Len(s)
      run == IF n >= 2 /\ s[n] = "=" /\ s[n - 1] = "=" THEN 2
             ELSE IF n >= 1 /\ s[n] = "=" THEN 1 ELSE 0
  IN  SubSeq(s, 1, n - run)

\* isValidBase64String with one test against the union of the two classes
isValidBase64String_Union(source) ==
  IF source.typeof # "string" THEN FALSE
  ELSE LET string == StripPadding2(RemoveWhiteSpace(source.str))
       IN  ~TestOutside(StdClass \cup UrlClass, string)

isValidBase64String(source) ==
  IF source.typeof # "string" THEN FALSE
  ELSE LET string == StripPadding2(RemoveWhiteSpace(source.str))
       IN  ~TestOutside(StdClass, string) \/ ~TestOutside(UrlClass, string)

InvalidError == [kind |-> "throw", error |-> "Invalid base64 string"]

(* ---------------------------- getBase64Info --------------------------- *)

\* the value getBase64Info returns for the string s
Base64Info(s) ==
  LET length == Len(s)
      padded == IF length % 4 > 0 THEN s \o Repeat("=", getPaddingLength(s)) ELSE s
      index == IndexOf(padded, "=")
      validLength == IF index > 0 THEN index ELSE Len(padded)
      paddingString == IF index > 0 THEN Slice(padded, index, Len(padded)) ELSE <<>>
      validString == Slice(padded, 0, validLength)
      urlSafeString == base64urlEncode(padded)
      normalString == base64urlDecode(padded)
  IN  [validString |-> validString,
       validLength |-> validLength,
       paddingString |-> paddingString,
       paddingLength |-> Len(paddingString),
       isUrlSafe |-> (padded = urlSafeString),
       isNormal |-> (padded = normalString),
       urlSafeString |-> urlSafeString,
       normalString |-> normalString]

\* getBase64Info without its validity check
getBase64Info_NoCheck(source) == [kind |-> "return", value |-> Base64Info(source.str)]

getBase64Info(source) ==
  IF ~isValidBase64String(source) THEN InvalidError
  ELSE [kind |-> "return", value |-> Base64Info(source.str)]

(* ------------------------------ decoder ------------------------------- *)

\* uint8Array[k] = v: the value is stored modulo 256 and a write outside
\* the buffer is ignored
Store(arr, k, v) == IF k + 1 \in DOMAIN arr THEN [arr EXCEPT ![k + 1] = v % 256] ELSE arr

\* the indices i .. i + n - 1 of base64 whose characters are looked up in revLookup
Reads(s, i, n) == [k \in 1..n |-> [index |-> i + k - 1, key |-> CharAt(s, i + k - 1)]]

\* one iteration of the main loop, from the loop state st
DecodeGroup(s, st) ==
  LET i == st.i
      tmp == BitOr(BitOr(BitOr(Shl(revLookupInt(CharAt(s, i)), 18),
                               Shl(revLookupInt(CharAt(s, i + 1)), 12)),
                         Shl(revLookupInt(CharAt(s, i + 2)), 6)),
                   revLookupInt(CharAt(s, i + 3)))
      a1 == Store(st.uint8Array, st.currentByte, BitAnd(Shr(tmp, 16), 255))
      a2 == Store(a1, st.currentByte + 1, BitAnd(Shr(tmp, 8), 255))
      a3 == Store(a2, st.currentByte + 2, BitAnd(tmp, 255))
  IN  [uint8Array |-> a3,
       currentByte |-> st.currentByte + 3,
       i |-> i + 4,
       groups |-> Append(st.groups, [i |-> i, currentByte |-> st.currentByte, tmp |-> tmp]),
       reads |-> st.reads \o Reads(s, i, 4),
       tail |-> st.tail]

RECURSIVE DecodeLoop(_, _, _)
\* for (; i < len; i += 4) with len = Math.min(validLength / 4), the
\* exact quotient: i < validLength / 4 is 4 * i < validLength
DecodeLoop(s, st, validLength) ==
  IF 4 * st.i < validLength THEN DecodeLoop(s, DecodeGroup(s, st), validLength) ELSE st

\* the two branches after the loop
DecodeTail(s, st, paddingLength) ==
  LET i == st.i
      t2 == BitOr(Shl(revLookupInt(CharAt(s, i)), 2), Shr(revLookupInt(CharAt(s, i + 1)), 4))
      s2 == IF paddingLength = 2
            THEN [st EXCEPT !.uint8Array = Store(st.uint8Array, st.currentByte, BitAnd(t2, 255)),
                            !.currentByte = st.currentByte + 1,
                            !.reads = st.reads \o Reads(s, i, 2),
                            !.tail = Reads(s, i, 2)]
            ELSE st
      t1 == BitOr(BitOr(Shl(revLookupInt(CharAt(s, i)), 10),
                        Shl(revLookupInt(CharAt(s, i + 1)), 4)),
                  Shr(revLookupInt(CharAt(s, i + 2)), 2))
      b1 == Store(s2.uint8Array, s2.currentByte, BitAnd(Shr(t1, 8), 255))
      b2 == Store(b1, s2.currentByte + 1, BitAnd(t1, 255))
  IN  IF paddingLength = 1
      THEN [s2 EXCEPT !.uint8Array = b2,
                      !.currentByte = s2.currentByte + 2,
                      !.reads = s2.reads \o Reads(s, i, 3),
                      !.tail = Reads(s, i, 3)]
      ELSE s2

\* the body of toUint8Array: its outcome, and in field `run` the final loop
\* state (buffer, indices, and the record of what was read)
toUint8ArrayRun(source) ==
  LET info == getBase64Info(source)
  IN  IF info.kind = "throw" THEN info
      ELSE
        LET validLength == info.value.validLength
            paddingLength == info.value.paddingLength
            byteLength == getByteLength(source.str)
        IN  IF byteLength < 0
            THEN [kind |-> "throw", error |-> "RangeError"]
            ELSE
              LET st0 == [uint8Array |-> [k \in 1..byteLength |-> 0],
                          currentByte |-> 0,
                          i |-> 0,
                          groups |-> <<>>,
                          reads |-> <<>>,
                          tail |-> <<>>]
                  st == DecodeTail(source.str, DecodeLoop(source.str, st0, validLength),
                                   paddingLength)
              IN  [kind |-> "return", value |-> st.uint8Array, run |-> st]

toUint8Array(source) ==
  LET r == toUint8ArrayRun(source)
  IN  IF r.kind = "throw" THEN r ELSE [kind |-> "return", value |-> r.value]

(* ------------------- platform codecs the wrappers call ---------------- *)

RECURSIVE BitsOf(_, _)
\* the n low bits of v, most significant first
BitsOf(v, n) == IF n = 0 THEN <<>> ELSE Append(BitsOf(v \div 2, n - 1), v % 2)

RECURSIVE BitStream(_, _)
\* the concatenated n-bit groups of the values vs
BitStream(vs, n) == IF vs = <<>> THEN <<>> ELSE BitsOf(Head(vs), n) \o BitStream(Tail(vs), n)

RECURSIVE ValueOf(_)
\* the number a bit sequence denotes, most significant bit first
ValueOf(bits) ==
  IF bits = <<>> THEN 0
  ELSE 2 * ValueOf(SubSeq(bits, 1, Len(bits) - 1)) + bits[Len(bits)]

\* window.btoa over the byte string of uint8Array: RFC 4648 section 4, the
\* bit stream cut into 6-bit groups, the last one zero-filled, then '='
\* up to a multiple of four characters
uint8ArrayToBase64(uint8Array) ==
  LET bits == BitStream(uint8Array, 8)
      fill == (6 - (Len(bits) % 6)) % 6
      all == bits \o [k \in 1..fill |-> 0]
      chars == [k \in 1..(Len(all) \div 6) |-> code[ValueOf(SubSeq(all, 6 * k - 5, 6 * k)) + 1]]
  IN  chars \o Repeat("=", (4 - (Len(chars) % 4)) % 4)

\* window.atob (the forgiving-base64 decode of the HTML standard) followed
\* by the char codes of its result
base64ToUint8Array(s) ==
  LET data == SelectSeq(s, LAMBDA c : c \notin {" ", "\t", "\n", "\f", "\r"})
      n == Len(data)
      cut == IF n % 4 = 0 /\ n >= 2 /\ data[n] = "=" /\ data[n - 1] = "=" THEN 2
             ELSE IF n % 4 = 0 /\ n >= 1 /\ data[n] = "=" THEN 1 ELSE 0
      body == SubSeq(data, 1, n - cut)
      std == {code[k] : k \in DOMAIN code}
  IN  IF Len(body) % 4 = 1 \/ (\E k \in 1..Len(body) : body[k] \notin std)
      THEN [kind |-> "throw", error |-> "InvalidCharacterError"]
      ELSE LET bits == BitStream([k \in 1..Len(body) |-> revLookup[body[k]]], 6)
               nBytes == Len(bits) \div 8
           IN  [kind |-> "return",
                value |-> [k \in 1..nBytes |-> ValueOf(SubSeq(bits, 8 * k - 7, 8 * k))]]

\* the UTF-8 bytes of one code point; a lone surrogate is encoded as U+FFFD
Utf8Bytes(cp) ==
  LET c == IF cp >= 55296 /\ cp <= 57343 THEN 65533 ELSE cp
  IN  IF c < 128 THEN <<c>>
      ELSE IF c < 2048 THEN <<192 + (c \div 64), 128 + (c % 64)>>
      ELSE IF c < 65536
      THEN <<224 + (c \div 4096), 128 + ((c \div 64) % 64), 128 + (c % 64)>>
      ELSE <<240 + (c \div 262144), 128 + ((c \div 4096) % 64),
             128 + ((c \div 64) % 64), 128 + (c % 64)>>

RECURSIVE TextEncode(_)
\* new TextEncoder().encode(string), the string given as its code points
TextEncode(string) ==
  IF string = <<>> THEN <<>> ELSE Utf8Bytes(Head(string)) \o TextEncode(Tail(string))

Utf8Start == [needed |-> 0, seen |-> 0, cp |-> 0, lower |-> 128, upper |-> 191, out |-> <<>>]

RECURSIVE Utf8Decode(_, _)
\* the UTF-8 decoder of the Encoding standard, error mode "replacement"
Utf8Decode(bs, d) ==
  IF bs = <<>>
  THEN IF d.needed # 0 THEN Append(d.out, 65533) ELSE d.out
  ELSE
    LET b == Head(bs)
        reset == [Utf8Start EXCEPT !.out = d.out]
    IN  IF d.needed = 0
        THEN IF b <= 127 THEN Utf8Decode(Tail(bs), [d EXCEPT !.out = Append(d.out, b)])
             ELSE IF b >= 194 /\ b <= 223
             THEN Utf8Decode(Tail(bs), [d EXCEPT !.needed = 1, !.cp = b % 32])
             ELSE IF b >= 224 /\ b <= 239
             THEN Utf8Decode(Tail(bs), [d EXCEPT !.needed = 2, !.cp = b % 16,
                                                 !.lower = IF b = 224 THEN 160 ELSE 128,
                                                 !.upper = IF b = 237 THEN 159 ELSE 191])
             ELSE IF b >= 240 /\ b <= 244
             THEN Utf8Decode(Tail(bs), [d EXCEPT !.needed = 3, !.cp = b % 8,
                                                 !.lower = IF b = 240 THEN 144 ELSE 128,
                                                 !.upper = IF b = 244 THEN 143 ELSE 191])
             ELSE Utf8Decode(Tail(bs), [d EXCEPT !.out = Append(d.out, 65533)])
        ELSE IF b < d.lower \/ b > d.upper
        THEN Utf8Decode(bs, [reset EXCEPT !.out = Append(d.out, 65533)])
        ELSE LET cp == (d.cp * 64) + (b % 64)
             IN  IF d.seen + 1 = d.needed
                 THEN Utf8Decode(Tail(bs), [reset EXCEPT !.out = Append(d.out, cp)])
                 ELSE Utf8Decode(Tail(bs), [d EXCEPT !.cp = cp, !.seen = d.seen + 1,
                                                     !.lower = 128, !.upper = 191])

\* new TextDecoder().decode(arrayBuffer): UTF-8, not fatal, a leading byte
\* order mark dropped; the result given as its code points
TextDecode(arrayBuffer) ==
  LET out == Utf8Decode(arrayBuffer, Utf8Start)
  IN  IF Len(out) > 0 /\ out[1] = 65279 THEN Tail(out) ELSE out

(* --------------------------- string wrappers -------------------------- *)

decodeBase64(source, flag) ==
  IF ~isValidBase64String(source) THEN InvalidError
  ELSE LET b == IF flag THEN base64urlDecode(source.str) ELSE source.str
           arrayBuffer == base64ToUint8Array(b)
       IN  IF arrayBuffer.kind = "throw" THEN arrayBuffer
           ELSE [kind |-> "return", value |-> TextDecode(arrayBuffer.value)]

encodeBase64(string, flag) ==
  LET arrayBuffer == TextEncode(string)
      b == uint8ArrayToBase64(arrayBuffer)
  IN  IF flag THEN base64urlEncode(b) ELSE b

(* --------------------------- state machine ---------------------------- *)

RECURSIVE SeqsUpTo(_, _)
\* all sequences over S of length at most n
SeqsUpTo(S, n) ==
  IF n = 0 THEN {<<>>}
  ELSE LET shorter == SeqsUpTo(S, n - 1)
       IN  shorter \cup {Append(s, x) : s \in {t \in shorter : Len(t) = n - 1}, x \in S}

NoValue == [typeof |-> "undefined", str |-> <<>>]
NoRet == [kind |-> "none"]
NoRun == [i |-> 0]

Str(s) == [typeof |-> "string", str |-> s]

\* what a caller may hand to a function taking a base64 argument: a string
\* or, the parameter being unchecked at run time, a number
AnyInputs == {Str(s) : s \in SeqsUpTo(InputChars, MaxStrLen)} \cup {[typeof |-> "number", str |-> <<>>]}

Init ==
  /\ \/ /\ given = "bytes"
        /\ bytes \in SeqsUpTo(ByteVals, MaxLen)
        /\ text = <<>>
        /\ base64 = NoValue
     \/ /\ given = "base64"
        /\ bytes = <<>>
        /\ text = <<>>
        /\ base64 \in AnyInputs
     \/ /\ given = "text"
        /\ bytes = <<>>
        /\ text \in SeqsUpTo(TextChars, MaxTextLen)
        /\ base64 = NoValue
  /\ url = NoValue
  /\ urlSafe = FALSE
  /\ call = "none"
  /\ ret = NoRet
  /\ trace = NoRun

\* the caller encodes its buffer and keeps the text
FromUint8Array ==
  /\ given = "bytes"
  /\ call = "none"
  /\ call' = "fromUint8Array"
  /\ ret' = [kind |-> "return", value |-> fromUint8Array(bytes)]
  /\ base64' = Str(fromUint8Array(bytes))
  /\ UNCHANGED <<given, bytes, text, url, urlSafe, trace>>

\* the caller encodes its text, standard or URL-safe, and keeps the result
EncodeBase64 ==
  /\ given = "text"
  /\ call = "none"
  /\ \E flag \in BOOLEAN :
       /\ urlSafe' = flag
       /\ ret' = [kind |-> "return", value |-> encodeBase64(text, flag)]
       /\ base64' = Str(encodeBase64(text, flag))
  /\ call' = "encodeBase64"
  /\ UNCHANGED <<given, bytes, text, url, trace>>

\* the validity check of a supplied value
IsValidBase64String ==
  /\ given = "base64"
  /\ call = "none"
  /\ call' = "isValidBase64String"
  /\ ret' = [kind |-> "return", value |-> isValidBase64String(base64)]
  /\ UNCHANGED <<given, bytes, text, base64, url, urlSafe, trace>>

\* metadata of a supplied value or of the encoder's output
GetBase64Info ==
  /\ call \in {"none", "fromUint8Array"}
  /\ base64 # NoValue
  /\ call' = "getBase64Info"
  /\ ret' = getBase64Info(base64)
  /\ UNCHANGED <<given, bytes, text, base64, url, urlSafe, trace>>

\* decoding of a supplied value or of the encoder's output
ToUint8Array ==
  /\ call \in {"none", "fromUint8Array"}
  /\ base64 # NoValue
  /\ call' = "toUint8Array"
  /\ ret' = toUint8Array(base64)
  /\ trace' = LET r == toUint8ArrayRun(base64) IN IF r.kind = "return" THEN r.run ELSE NoRun
  /\ UNCHANGED <<given, bytes, text, base64, url, urlSafe>>

\* decoding of a supplied value to text, with either setting of the flag
DecodeBase64 ==
  /\ given = "base64"
  /\ call = "none"
  /\ \E flag \in BOOLEAN :
       /\ urlSafe' = flag
       /\ ret' = decodeBase64(base64, flag)
  /\ call' = "decodeBase64"
  /\ UNCHANGED <<given, bytes, text, base64, url, trace>>

\* the URL-safe form of the encoder's output
Base64urlEncode ==
  /\ call = "fromUint8Array"
  /\ call' = "base64urlEncode"
  /\ ret' = [kind |-> "return", value |-> base64urlEncode(base64.str)]
  /\ url' = Str(base64urlEncode(base64.str))
  /\ UNCHANGED <<given, bytes, text, base64, urlSafe, trace>>

\* the normalisation step of decodeBase64 on a URL-safe string: the one
\* just derived from the encoder's output, or the one encodeBase64 returned
Base64urlDecode ==
  /\ \/ call = "base64urlEncode" /\ ret' = [kind |-> "return", value |-> base64urlDecode(url.str)]
     \/ /\ call = "encodeBase64" /\ urlSafe
        /\ ret' = [kind |-> "return", value |-> base64urlDecode(base64.str)]
  /\ call' = "base64urlDecode"
  /\ UNCHANGED <<given, bytes, text, base64, url, urlSafe, trace>>

Next ==
  \/ FromUint8Array
  \/ EncodeBase64
  \/ IsValidBase64String
  \/ GetBase64Info
  \/ ToUint8Array
  \/ DecodeBase64
  \/ Base64urlEncode
  \/ Base64urlDecode

Spec == Init /\ [][Next]_vars

\* the caller that starts from a byte buffer: it encodes, and then inspects,
\* decodes or makes URL-safe what the encoder returned
InitEncoded == Init /\ given = "bytes"

NextEncoded ==
  \/ FromUint8Array
  \/ GetBase64Info
  \/ ToUint8Array
  \/ Base64urlEncode
  \/ Base64urlDecode

SpecEncoded == InitEncoded /\ [][NextEncoded]_vars

(* ------------------------------ claims -------------------------------- *)

\* the set of characters of the string s
Chars(s) == {s[k] : k \in 1..Len(s)}

\* C1: decoding the encoder's output gives back the buffer: the same
\* length and the same byte at every index.
C1_RoundTrip ==
  (given = "bytes" /\ call = "toUint8Array")
    => (ret.kind = "return" /\ ret.value = bytes)

RECURSIVE C2_Reference(_)
\* the encoding the claim describes, by division and remainder
C2_Reference(B) ==
  IF Len(B) >= 3
  THEN LET v == (B[1] * 65536) + (B[2] * 256) + B[3]
       IN  << code[((v \div 262144) % 64) + 1], code[((v \div 4096) % 64) + 1],
              code[((v \div 64) % 64) + 1], code[(v % 64) + 1] >>
             \o C2_Reference(SubSeq(B, 4, Len(B)))
  ELSE IF Len(B) = 1
  THEN << code[(B[1] \div 4) + 1], code[((B[1] * 16) % 64) + 1], "=", "=" >>
  ELSE IF Len(B) = 2
  THEN LET v == (B[1] * 256) + B[2]
       IN  << code[(v \div 1024) + 1], code[((v \div 16) % 64) + 1],
              code[((v * 4) % 64) + 1], "=" >>
  ELSE <<>>

\* C2: the encoder returns, for every buffer, the standard Base64 text:
\* four alphabet characters per triplet, the stated characters and padding
\* for one or two leftover bytes, every table index within 0..63 (no
\* "undefined" in the text), and it agrees with the platform's encoder.
C2_EncoderCorrect ==
  call = "fromUint8Array"
    => /\ ret.kind = "return"
       /\ ret.value = C2_Reference(bytes)
       /\ ret.value = uint8ArrayToBase64(bytes)
       /\ Chars(ret.value) \subseteq {code[k] : k \in DOMAIN code} \cup {"="}

\* C2 witness: a buffer with a full triplet and two leftover bytes was encoded
C2_Witness ==
  /\ call = "fromUint8Array"
  /\ Len(bytes) = 5
  /\ Len(ret.value) = 8
  /\ ret.value[8] = "="
  /\ ret.value[7] # "="

\* C3: the decoded buffer's length is (validLength + paddingLength) * 3/4
\* - paddingLength, with the lengths getBase64Info reports.
C3_DecodedLength ==
  (call = "toUint8Array" /\ ret.kind = "return")
    => LET info == Base64Info(base64.str)
       IN  Len(ret.value) =
             (((info.validLength + info.paddingLength) * 3) \div 4) - info.paddingLength

\* C4: the three decoding entry points throw the invalid-input error
\* exactly when the validity check fails, a throw carries no result, and
\* getBase64Info and toUint8Array return on every valid input.
C4_InvalidInputError ==
  call \in {"getBase64Info", "toUint8Array", "decodeBase64"}
    => /\ (ret = InvalidError) <=> ~isValidBase64String(base64)
       /\ ret.kind \in {"return", "throw"}
       /\ ret.kind = "throw" => DOMAIN ret = {"kind", "error"}
       /\ (call # "decodeBase64" /\ isValidBase64String(base64)) => ret.kind = "return"

\* C4 witness: toUint8Array was handed a string that fails the check and threw
C4_Witness ==
  /\ call = "toUint8Array"
  /\ base64.typeof = "string"
  /\ "!" \in Chars(base64.str)
  /\ ret = InvalidError

\* what is left of s after removing whitespace and then at most two trailing '='
C5_Remaining(s) ==
  LET t == SelectSeq(s, LAMBDA c : c \notin WhiteSpace)
      drop == IF Len(t) >= 2 /\ t[Len(t)] = "=" /\ t[Len(t) - 1] = "=" THEN 2
              ELSE IF Len(t) >= 1 /\ t[Len(t)] = "=" THEN 1 ELSE 0
  IN  {t[k] : k \in 1..(Len(t) - drop)}

\* C5 as stated: the check returns true whenever every remaining character
\* belongs to the union of the two alphabets, mixed strings included.
C5_MixedAccepted ==
  (call = "isValidBase64String" /\ base64.typeof = "string"
     /\ C5_Remaining(base64.str) \subseteq AlphaNum \cup {"+", "/", "-", "_"})
    => ret.value = TRUE

\* C5 amended: the check returns true exactly for a string whose remaining
\* characters all belong to the standard alphabet, or all to the URL-safe
\* alphabet; a string mixing '+' or '/' with '-' or '_' is rejected.
C5_OneAlphabet ==
  call = "isValidBase64String"
    => ret.value =
         (/\ base64.typeof = "string"
          /\ \/ C5_Remaining(base64.str) \subseteq AlphaNum \cup {"+", "/"}
             \/ C5_Remaining(base64.str) \subseteq AlphaNum \cup {"-", "_"})

\* C5 witness: a string mixing '+' and '-' among valid characters was rejected
C5_Witness ==
  /\ call = "isValidBase64String"
  /\ base64.typeof = "string"
  /\ {"+", "-"} \subseteq C5_Remaining(base64.str)
  /\ C5_Remaining(base64.str) \subseteq AlphaNum \cup {"+", "/", "-", "_"}
  /\ ret.value = FALSE

\* C6: the encoder's output has length ceil(len / 3) * 4, a multiple of 4.
C6_LengthLaw ==
  call = "fromUint8Array"
    => /\ Len(ret.value) % 4 = 0
       /\ Len(ret.value) = ((Len(bytes) + 2) \div 3) * 4

\* C6 witness: a buffer of four bytes was encoded to eight characters
C6_Witness ==
  /\ call = "fromUint8Array"
  /\ Len(bytes) = 4
  /\ Len(ret.value) = 8

\* C7: for every valid input the reported paddingLength is 0, 1 or 2 and
\* validLength + paddingLength is a multiple of 4.
C7_PaddingRange ==
  (call = "getBase64Info" /\ ret.kind = "return")
    => /\ ret.value.paddingLength \in {0, 1, 2}
       /\ (ret.value.validLength + ret.value.paddingLength) % 4 = 0

\* C8: with p the input right-padded to a multiple of 4, validLength is the
\* index of the first '=' of p (its length if there is none), validString
\* and paddingString are p before and from that index, and together are p.
C8_ValidPaddingSplit ==
  (call = "getBase64Info" /\ ret.kind = "return")
    => LET s == base64.str
           p == s \o Repeat("=", (4 - (Len(s) % 4)) % 4)
           eqs == {k \in 1..Len(p) : p[k] = "="}
           first == IF eqs = {} THEN Len(p)
                    ELSE (CHOOSE k \in eqs : \A j \in eqs : k <= j) - 1
       IN  /\ ret.value.validLength = first
           /\ ret.value.validString = SubSeq(p, 1, first)
           /\ ret.value.paddingString = SubSeq(p, first + 1, Len(p))
           /\ ret.value.validString \o ret.value.paddingString = p

\* C9: the URL-safe form of the encoder's output holds none of '+', '/',
\* '=', normalising it gives back the exact padded standard string, and
\* normalising encodeBase64(S, true) gives encodeBase64(S, false).
C9_UrlSafeNormalisation ==
  /\ call = "base64urlEncode" => Chars(ret.value) \cap {"+", "/", "="} = {}
  /\ (call = "encodeBase64" /\ urlSafe) => Chars(ret.value) \cap {"+", "/", "="} = {}
  /\ (call = "base64urlDecode" /\ given = "bytes")
       => (ret.value = base64.str /\ base64.str = fromUint8Array(bytes))
  /\ (call = "base64urlDecode" /\ given = "text")
       => ret.value = encodeBase64(text, FALSE)

\* C9 witness: a padded standard string holding '+' was made URL-safe
\* ('-', no padding) and normalised back
C9_Witness ==
  /\ call = "base64urlDecode"
  /\ given = "bytes"
  /\ "+" \in Chars(base64.str)
  /\ base64.str[Len(base64.str)] = "="
  /\ "-" \in Chars(url.str)
  /\ "=" \notin Chars(url.str)
  /\ ret.value = base64.str

\* C10: with validLength = 4k + r, r in {0, 2, 3}, the main loop runs k
\* times, iteration j reads characters 4j..4j+3 and writes bytes 3j..3j+2
\* (the three bytes of the 24-bit group value), the group index ends at 4k,
\* the partial-group branch reads characters 4k..4k+r-1 only, and every key
\* looked up in the reverse table is one of its keys.
C10_FullGroups ==
  (call = "toUint8Array" /\ ret.kind = "return"
     /\ Base64Info(base64.str).validLength % 4 \in {0, 2, 3})
    => LET s == base64.str
           validLength == Base64Info(s).validLength
           k == validLength \div 4
           r == validLength % 4
       IN  /\ Len(trace.groups) = k
           /\ \A n \in 1..Len(trace.reads) : trace.reads[n].key \in revKeys
           /\ Len(ret.value) >= 3 * k
           /\ \A j \in 0..(k - 1) :
                LET g == trace.groups[j + 1]
                IN  /\ g.i = 4 * j
                    /\ g.currentByte = 3 * j
                    /\ g.tmp = (revLookup[s[4 * j + 1]] * 262144)
                               + (revLookup[s[4 * j + 2]] * 4096)
                               + (revLookup[s[4 * j + 3]] * 64)
                               + revLookup[s[4 * j + 4]]
                    /\ SubSeq(ret.value, 3 * j + 1, 3 * j + 3)
                         = << g.tmp \div 65536, (g.tmp \div 256) % 256, g.tmp % 256 >>
           /\ trace.i = 4 * k
           /\ {trace.tail[n].index : n \in 1..Len(trace.tail)} = (4 * k)..(4 * k + r - 1)

====
